---- MODULE Spec2Model ----
(***************************************************************************)
(* A model of bevy_undo_redo: the generic History<T> collection            *)
(* (src/src/history.rs), the UndoRedo orchestrator built on top of it      *)
(* (src/src/undoredo.rs) with its deferred commands                        *)
(* (src/src/extensions.rs), and the composite operations.                  *)
(*                                                                         *)
(* A behaviour follows one instance of one type: `subject` says which (a   *)
(* History<T>, an UndoRedo, or one of the composite operations             *)
(* OperationGroup, Set and Action).                                        *)
(* Every public method is one action; the methods themselves are pure      *)
(* operators over a record [committed, undone, limit] so that UndoRedo's   *)
(* actions call the very same History operators the standalone History     *)
(* actions do.                                                             *)
(***************************************************************************)
EXTENDS Integers, Sequences, FiniteSets, TLC

\* ------------------------------------------------------------------ bounds
\* Values of T pushed into a standalone History<T> are drawn from 1..MaxItem.
MaxItem == 2
\* `limit` is None or Some(n) with n in 1..MaxLimit.
MaxLimit == 2
\* An unlimited History is not grown beyond MaxLen committed items.
MaxLen == 3
\* Longest iterator handed to extend() / from_iter().
MaxExtend == 2
\* Number of operation objects (Box<dyn Operation>) alive at the same time.
MaxOps == 4

Items == 1..MaxItem
Ops == 1..MaxOps

\* ------------------------------------------------------------------- state
VARIABLES
    subject,            \* the type this behaviour follows: "History", "UndoRedo",
                        \* "OperationGroup", "Set" or "Action"
    committed,          \* History::committed, oldest first
    undone,             \* History::undone, most recently undone last
    limit,              \* History::limit: None or Some(n)
    queued_operations,  \* UndoRedo::queued_operations, front first
    op_list,            \* OperationGroup::op_list / Set::op_list / Action::op_list,
                        \* in push order
    commands,           \* what the last call appended to its `commands` argument
    call,               \* the last call: its name, arguments, result, returned reference
    pre,                \* committed, undone and the queue as they were before the last call
    pushed,             \* items of the current run of consecutive push calls (a window);
                        \* for a composite, the children pushed so far, in push order
    saved,              \* the lists before a successful undo, kept over an immediate redo
    last_call           \* per operation object alive: the last of apply / undo invoked on
                        \* it by the UndoRedo, "none" when neither was

vars == <<subject, committed, undone, limit, queued_operations, op_list, commands, call, pre,
          pushed, saved, last_call>>

\* ----------------------------------------------------------------- helpers
\* Option<NonZeroUsize>: None is the empty sequence, Some(n) is <<n>>.
None == <<>>
Some(n) == <<n>>

Last(s) == s[Len(s)]
Front(s) == SubSeq(s, 1, Len(s) - 1)

Range(s) == {s[i] : i \in 1..Len(s)}

\* usize::saturating_sub
saturating_sub(a, b) == IF a >= b THEN a - b ELSE 0

\* VecDeque::drain(0..n) with the iterator dropped: the first n items are removed.
drain_front(s, n) == SubSeq(s, n + 1, Len(s))

\* All sequences over S of length at most n.
SeqsUpTo(S, n) == UNION {[1..k -> S] : k \in 0..n}

\* The last n items of s (all of s when it is shorter).
LastN(s, n) == IF Len(s) <= n THEN s ELSE SubSeq(s, Len(s) - n + 1, Len(s))

\* The greatest number of a non-empty sequence of numbers.
Max(s) == CHOOSE m \in Range(s) : \A i \in 1..Len(s) : s[i] <= m

\* The History value held in the variables.
self_history == [committed |-> committed, undone |-> undone, limit |-> limit]

\* ------------------------------------------------------------ History<T>
\* History::new
History_new == [committed |-> <<>>, undone |-> <<>>, limit |-> None]

\* impl FromIterator for History
History_from_iter(iter) == [History_new EXCEPT !.committed = iter]

\* Mutant of History::clear: only the committed list is cleared.
History_clear_keeps_undone(h) == [h EXCEPT !.committed = <<>>]

\* History::clear
History_clear(h) == [h EXCEPT !.committed = <<>>, !.undone = <<>>]

\* History::clear_undone
History_clear_undone(h) == [h EXCEPT !.undone = <<>>]

\* Mutant of truncate_committed_to_limit_plus: the room for the item about to be
\* pushed is forgotten (`plus` is ignored).
truncate_ignores_plus(h, plus) ==
    IF h.limit = None
    THEN h
    ELSE LET lim == h.limit[1]
             count_to_remove == saturating_sub(Len(h.committed), lim)
         IN [h EXCEPT !.committed = drain_front(h.committed, count_to_remove)]

\* Mutant of truncate_committed_to_limit_plus: a full history gives up one item
\* only (a single pop_front), however far over the limit it is.
truncate_pops_once(h, plus) ==
    IF h.limit = None
    THEN h
    ELSE IF Len(h.committed) + plus > h.limit[1]
         THEN [h EXCEPT !.committed = drain_front(h.committed, 1)]
         ELSE h

\* History::truncate_committed_to_limit_plus
truncate_committed_to_limit_plus(h, plus) ==
    IF h.limit = None
    THEN h
    ELSE LET lim == h.limit[1]
             len_after_push == Len(h.committed) + plus
             count_to_remove == saturating_sub(len_after_push, lim)
         IN [h EXCEPT !.committed = drain_front(h.committed, count_to_remove)]

\* Mutant of History::push: the undone list is not cleared.
History_push_keeps_undone(h, item) ==
    LET h1 == truncate_committed_to_limit_plus(h, 1)
    IN [h1 EXCEPT !.committed = Append(h1.committed, item)]

\* History::push
History_push(h, item) ==
    LET h1 == truncate_committed_to_limit_plus(h, 1)
        h2 == [h1 EXCEPT !.committed = Append(h1.committed, item)]
    IN History_clear_undone(h2)

\* Mutant of History::redo: the restored item goes through the limit enforcement
\* of push, evicting the oldest committed items.
History_redo_evicts(h) ==
    IF h.undone = <<>>
    THEN [h |-> h, result |-> "NoApplicableHistory", ref |-> <<>>]
    ELSE LET last_undone_item == Last(h.undone)
             h0 == truncate_committed_to_limit_plus(h, 1)
             h1 == [h0 EXCEPT !.undone = Front(h0.undone),
                              !.committed = Append(h0.committed, last_undone_item)]
         IN [h |-> h1, result |-> "Ok", ref |-> <<"committed", Len(h1.committed)>>]

\* Mutant of History::redo: an empty undone list is reported with the wrong variant.
History_redo_wrong_error(h) ==
    IF h.undone = <<>>
    THEN [h |-> h, result |-> "NoQueuedOperations", ref |-> <<>>]
    ELSE LET last_undone_item == Last(h.undone)
             h1 == [h EXCEPT !.undone = Front(h.undone),
                             !.committed = Append(h.committed, last_undone_item)]
         IN [h |-> h1, result |-> "Ok", ref |-> <<"committed", Len(h1.committed)>>]

\* Mutant of History::redo: after the last undone item is restored the rest of
\* `undone` is cleared, as push does.
History_redo_drops_rest(h) ==
    IF h.undone = <<>>
    THEN [h |-> h, result |-> "NoApplicableHistory", ref |-> <<>>]
    ELSE LET last_undone_item == Last(h.undone)
             h1 == [h EXCEPT !.undone = <<>>,
                             !.committed = Append(h.committed, last_undone_item)]
         IN [h |-> h1, result |-> "Ok", ref |-> <<"committed", Len(h1.committed)>>]

\* Mutant of History::redo: the oldest undone item is restored (remove(0) instead
\* of pop).
History_redo_takes_first(h) ==
    IF h.undone = <<>>
    THEN [h |-> h, result |-> "NoApplicableHistory", ref |-> <<>>]
    ELSE LET first_undone_item == Head(h.undone)
             h1 == [h EXCEPT !.undone = Tail(h.undone),
                             !.committed = Append(h.committed, first_undone_item)]
         IN [h |-> h1, result |-> "Ok", ref |-> <<"committed", Len(h1.committed)>>]

\* History::redo.  The returned &mut T is modelled as the place it points at:
\* <<list, position>>.
History_redo(h) ==
    IF h.undone = <<>>
    THEN [h |-> h, result |-> "NoApplicableHistory", ref |-> <<>>]
    ELSE LET last_undone_item == Last(h.undone)
             h1 == [h EXCEPT !.undone = Front(h.undone),
                             !.committed = Append(h.committed, last_undone_item)]
         IN [h |-> h1, result |-> "Ok", ref |-> <<"committed", Len(h1.committed)>>]

\* Mutant of History::undo: the undone item is inserted at the front of `undone`
\* (insert(0, ..) instead of push), and the first item is returned.
History_undo_inserts_front(h) ==
    IF h.committed = <<>>
    THEN [h |-> h, result |-> "NoApplicableHistory", ref |-> <<>>]
    ELSE LET last_committed_item == Last(h.committed)
             h1 == [h EXCEPT !.committed = Front(h.committed),
                             !.undone = <<last_committed_item>> \o h.undone]
         IN [h |-> h1, result |-> "Ok", ref |-> <<"undone", 1>>]

\* Mutant of History::undo: the reference returned is to the new back of
\* `committed` (the item before the one undone) when there is one.
History_undo_returns_back(h) ==
    IF h.committed = <<>>
    THEN [h |-> h, result |-> "NoApplicableHistory", ref |-> <<>>]
    ELSE LET last_committed_item == Last(h.committed)
             h1 == [h EXCEPT !.committed = Front(h.committed),
                             !.undone = Append(h.undone, last_committed_item)]
         IN [h |-> h1, result |-> "Ok",
             ref |-> IF h1.committed = <<>> THEN <<"undone", Len(h1.undone)>>
                     ELSE <<"committed", Len(h1.committed)>>]

\* Mutant of History::undo: the last committed item is copied to `undone` and
\* stays in `committed` (back() and clone instead of pop_back).
History_undo_keeps_committed(h) ==
    IF h.committed = <<>>
    THEN [h |-> h, result |-> "NoApplicableHistory", ref |-> <<>>]
    ELSE LET last_committed_item == Last(h.committed)
             h1 == [h EXCEPT !.undone = Append(h.undone, last_committed_item)]
         IN [h |-> h1, result |-> "Ok", ref |-> <<"undone", Len(h1.undone)>>]

\* History::undo
History_undo(h) ==
    IF h.committed = <<>>
    THEN [h |-> h, result |-> "NoApplicableHistory", ref |-> <<>>]
    ELSE LET last_committed_item == Last(h.committed)
             h1 == [h EXCEPT !.committed = Front(h.committed),
                             !.undone = Append(h.undone, last_committed_item)]
         IN [h |-> h1, result |-> "Ok", ref |-> <<"undone", Len(h1.undone)>>]

\* The item a returned reference points at, in history h.
Deref(h, ref) == IF ref[1] = "committed" THEN h.committed[ref[2]] ELSE h.undone[ref[2]]

\* impl Extend for History
RECURSIVE push_each(_, _)
push_each(h, iter) ==
    IF iter = <<>> THEN h ELSE push_each(History_push(h, Head(iter)), Tail(iter))

\* Mutant of impl Extend: the items go through VecDeque::extend whatever the limit.
History_extend_ignores_limit(h, iter) ==
    History_clear_undone([h EXCEPT !.committed = h.committed \o iter])

\* impl Extend for History
History_extend(h, iter) ==
    IF h.limit = None
    THEN History_clear_undone([h EXCEPT !.committed = h.committed \o iter])
    ELSE push_each(h, iter)

\* The length of committed after each statement of History::push that changes it:
\* after truncate_committed_to_limit_plus(1), then after push_back(item).
History_push_lens(h, item) ==
    LET h1 == truncate_committed_to_limit_plus(h, 1)
        h2 == [h1 EXCEPT !.committed = Append(h1.committed, item)]
    IN <<Len(h1.committed), Len(h2.committed)>>

\* The length of committed after each such statement of History::extend: one
\* VecDeque::extend without a limit, the statements of every push with one.
RECURSIVE push_each_lens(_, _)
push_each_lens(h, iter) ==
    IF iter = <<>> THEN <<>>
    ELSE History_push_lens(h, Head(iter))
             \o push_each_lens(History_push(h, Head(iter)), Tail(iter))

History_extend_lens(h, iter) ==
    IF h.limit = None
    THEN <<Len(h.committed \o iter)>>
    ELSE <<Len(h.committed)>> \o push_each_lens(h, iter)

\* ------------------------------------------------- bookkeeping of a call
Record(name, args, result, ref) ==
    [name |-> name, args |-> args, result |-> result, ref |-> ref]

PreState ==
    [committed |-> committed, undone |-> undone, queued_operations |-> queued_operations,
     limit |-> limit]

\* The history the last call started from.
pre_history == [committed |-> pre.committed, undone |-> pre.undone, limit |-> pre.limit]

\* The variables of the History take the value h.
SetHistory(h) ==
    /\ committed' = h.committed
    /\ undone' = h.undone
    /\ limit' = h.limit

\* --------------------------------------------- actions: standalone History
HistoryPush(item) ==
    /\ subject = "History"
    /\ limit = None => Len(committed) < MaxLen
    /\ SetHistory(History_push(self_history, item))
    /\ call' = Record("History::push", <<item>>, "unit", <<>>)
    /\ pre' = PreState
    /\ pushed' = LastN(Append(pushed, item), MaxLimit + 1)
    /\ saved' = <<>>
    /\ UNCHANGED <<subject, op_list, queued_operations, commands>>
    /\ UNCHANGED last_call

HistoryUndo ==
    /\ subject = "History"
    /\ LET r == History_undo(self_history)
       IN /\ SetHistory(r.h)
          /\ call' = Record("History::undo", <<>>, r.result, r.ref)
          /\ saved' = IF r.result = "Ok" THEN <<committed, undone>> ELSE <<>>
    /\ pre' = PreState
    /\ pushed' = <<>>
    /\ UNCHANGED <<subject, op_list, queued_operations, commands>>
    /\ UNCHANGED last_call

HistoryRedo ==
    /\ subject = "History"
    /\ LET r == History_redo(self_history)
       IN /\ SetHistory(r.h)
          /\ call' = Record("History::redo", <<>>, r.result, r.ref)
    /\ saved' = IF call.name = "History::undo" THEN saved ELSE <<>>
    /\ pre' = PreState
    /\ pushed' = <<>>
    /\ UNCHANGED <<subject, op_list, queued_operations, commands>>
    /\ UNCHANGED last_call

HistoryClear ==
    /\ subject = "History"
    /\ SetHistory(History_clear(self_history))
    /\ call' = Record("History::clear", <<>>, "unit", <<>>)
    /\ pre' = PreState
    /\ pushed' = <<>>
    /\ saved' = <<>>
    /\ UNCHANGED <<subject, op_list, queued_operations, commands>>
    /\ UNCHANGED last_call

HistoryClearUndone ==
    /\ subject = "History"
    /\ SetHistory(History_clear_undone(self_history))
    /\ call' = Record("History::clear_undone", <<>>, "unit", <<>>)
    /\ pre' = PreState
    /\ pushed' = <<>>
    /\ saved' = <<>>
    /\ UNCHANGED <<subject, op_list, queued_operations, commands>>
    /\ UNCHANGED last_call

HistoryExtend(iter) ==
    /\ subject = "History"
    /\ limit = None => Len(committed) + Len(iter) <= MaxLen
    /\ SetHistory(History_extend(self_history, iter))
    /\ call' = Record("History::extend", iter, "unit", <<>>)
    /\ pre' = PreState
    /\ pushed' = <<>>
    /\ saved' = <<>>
    /\ UNCHANGED <<subject, op_list, queued_operations, commands>>
    /\ UNCHANGED last_call

\* `limit` is a public field: the owner of a History may assign it at any time.
HistorySetLimit(new_limit) ==
    /\ subject = "History"
    /\ new_limit # limit
    /\ limit' = new_limit
    /\ call' = Record("History::limit=", new_limit, "unit", <<>>)
    /\ pre' = PreState
    /\ pushed' = <<>>
    /\ saved' = <<>>
    /\ UNCHANGED <<subject, op_list, committed, undone, queued_operations, commands>>
    /\ UNCHANGED last_call

HistoryNext ==
    \/ \E item \in Items : HistoryPush(item)
    \/ HistoryUndo
    \/ HistoryRedo
    \/ HistoryClear
    \/ HistoryClearUndone
    \/ \E iter \in SeqsUpTo(Items, MaxExtend) : HistoryExtend(iter)
    \/ \E new_limit \in {None} \cup {Some(n) : n \in 1..MaxLimit} : HistorySetLimit(new_limit)

\* -------------------------------------------------------------- UndoRedo
\* Operation objects are owned boxes: an operation handed to the UndoRedo is a new
\* object, different from every operation it currently holds.
Held == Range(queued_operations) \cup Range(committed) \cup Range(undone)

\* Operation::apply / Operation::undo of a leaf operation: one command is queued.
Operation_apply(op, cmds) == Append(cmds, <<"apply", op>>)
Operation_undo(op, cmds) == Append(cmds, <<"undo", op>>)

\* No operation object has had apply or undo invoked on it.
NeverCalled == [op \in Ops |-> "none"]

\* last_call once the commands cmds (each the trace of one apply or undo) were
\* queued in order.
RECURSIVE note_calls(_, _)
note_calls(lc, cmds) ==
    IF cmds = <<>> THEN lc
    ELSE note_calls([lc EXCEPT ![Head(cmds)[2]] = Head(cmds)[1]], Tail(cmds))

\* last_call after a call that queued cmds and left the operations `held` alive: a
\* dropped box is gone, and its identity is free for a new operation object.
after_call(lc, cmds, held) ==
    [op \in Ops |-> IF op \in held THEN note_calls(lc, cmds)[op] ELSE "none"]

\* Mutant of UndoRedo::push_to_queue: push_front instead of push_back.
UndoRedo_push_to_queue_front(queue, operation) == <<operation>> \o queue

\* UndoRedo::push_to_queue
UndoRedo_push_to_queue(queue, operation) == Append(queue, operation)

\* Mutant of the loop of apply_queue: the queue is drained from the back
\* (drain(..).rev(), or pop_back in a loop).
RECURSIVE apply_each_reversed(_, _, _)
apply_each_reversed(h, cmds, drained) ==
    IF drained = <<>>
    THEN [h |-> h, commands |-> cmds]
    ELSE LET operation == Last(drained)
         IN apply_each_reversed(History_push(h, operation),
                                Operation_apply(operation, cmds),
                                Front(drained))

\* Mutant of the loop of apply_queue: an operation that the limit would evict
\* before the call returns is dropped without being applied.
RECURSIVE apply_each_kept_only(_, _, _)
apply_each_kept_only(h, cmds, drained) ==
    IF drained = <<>>
    THEN [h |-> h, commands |-> cmds]
    ELSE IF h.limit # None /\ Len(drained) > h.limit[1]
         THEN apply_each_kept_only(h, cmds, Tail(drained))
         ELSE LET operation == Head(drained)
              IN apply_each_kept_only(History_push(h, operation),
                                      Operation_apply(operation, cmds),
                                      Tail(drained))

\* The loop of UndoRedo::apply_queue over the drained queue.
RECURSIVE apply_each(_, _, _)
apply_each(h, cmds, drained) ==
    IF drained = <<>>
    THEN [h |-> h, commands |-> cmds]
    ELSE LET operation == Head(drained)
         IN apply_each(History_push(h, operation),
                       Operation_apply(operation, cmds),
                       Tail(drained))

\* Mutant of UndoRedo::apply_queue: no early return on an empty queue, and the
\* undone list is cleared after the loop whether or not anything was applied.
UndoRedo_apply_queue_unchecked(h, queue, cmds) ==
    LET r == apply_each(h, cmds, queue)
    IN [h |-> History_clear_undone(r.h), queue |-> <<>>, commands |-> r.commands,
        result |-> "Ok"]

\* Mutant of UndoRedo::apply_queue: only the front operation is taken off the queue
\* (pop_front instead of drain(..)).
UndoRedo_apply_queue_pops_one(h, queue, cmds) ==
    IF queue = <<>>
    THEN [h |-> h, queue |-> queue, commands |-> cmds, result |-> "NoQueuedOperations"]
    ELSE LET r == apply_each(h, cmds, <<Head(queue)>>)
         IN [h |-> r.h, queue |-> Tail(queue), commands |-> r.commands, result |-> "Ok"]

\* Mutant of UndoRedo::apply_queue: the queue is iterated without being drained,
\* so the operations applied stay queued as well.
UndoRedo_apply_queue_keeps_queue(h, queue, cmds) ==
    IF queue = <<>>
    THEN [h |-> h, queue |-> queue, commands |-> cmds, result |-> "NoQueuedOperations"]
    ELSE LET r == apply_each(h, cmds, queue)
         IN [h |-> r.h, queue |-> queue, commands |-> r.commands, result |-> "Ok"]

\* UndoRedo::apply_queue
UndoRedo_apply_queue(h, queue, cmds) ==
    IF queue = <<>>
    THEN [h |-> h, queue |-> queue, commands |-> cmds, result |-> "NoQueuedOperations"]
    ELSE LET r == apply_each(h, cmds, queue)
         IN [h |-> r.h, queue |-> <<>>, commands |-> r.commands, result |-> "Ok"]

\* Mutant of UndoRedo::push_and_apply: the operation is pushed to the history
\* without being applied.
UndoRedo_push_and_apply_unapplied(h, operation, cmds) ==
    [h |-> History_push(h, operation), commands |-> cmds, result |-> "Ok"]

\* UndoRedo::push_and_apply
UndoRedo_push_and_apply(h, operation, cmds) ==
    [h |-> History_push(h, operation),
     commands |-> Operation_apply(operation, cmds),
     result |-> "Ok"]

\* Mutant of UndoRedo::redo: the restored operation is undone instead of applied.
UndoRedo_redo_calls_undo(h, cmds) ==
    LET r == History_redo(h)
    IN IF r.result # "Ok"
       THEN [h |-> r.h, commands |-> cmds, result |-> r.result]
       ELSE [h |-> r.h, commands |-> Operation_undo(Deref(r.h, r.ref), cmds),
             result |-> "Ok"]

\* Mutant of UndoRedo::redo: the operation is moved back to committed without
\* being applied again.
UndoRedo_redo_unapplied(h, cmds) ==
    LET r == History_redo(h)
    IN [h |-> r.h, commands |-> cmds, result |-> r.result]

\* UndoRedo::redo
UndoRedo_redo(h, cmds) ==
    LET r == History_redo(h)
    IN IF r.result # "Ok"
       THEN [h |-> r.h, commands |-> cmds, result |-> r.result]
       ELSE [h |-> r.h, commands |-> Operation_apply(Deref(r.h, r.ref), cmds),
             result |-> "Ok"]

\* Mutant of UndoRedo::undo: undo is invoked on the last committed operation,
\* which is left where it is (back_mut() instead of History::undo).
UndoRedo_undo_peeks(h, cmds) ==
    IF h.committed = <<>>
    THEN [h |-> h, commands |-> cmds, result |-> "NoApplicableHistory"]
    ELSE [h |-> h, commands |-> Operation_undo(Last(h.committed), cmds), result |-> "Ok"]

\* UndoRedo::undo
UndoRedo_undo(h, cmds) ==
    LET r == History_undo(h)
    IN IF r.result # "Ok"
       THEN [h |-> r.h, commands |-> cmds, result |-> r.result]
       ELSE [h |-> r.h, commands |-> Operation_undo(Deref(r.h, r.ref), cmds),
             result |-> "Ok"]

\* Mutant of PerformUndo::apply: the result of UndoRedo::undo is unwrapped, so an
\* empty history makes the command panic.
PerformUndo_apply_unwrap(h, cmds) ==
    LET r == UndoRedo_undo(h, cmds)
    IN [h |-> r.h, commands |-> r.commands,
        result |-> IF r.result = "Ok" THEN "unit" ELSE "panic"]

\* <PerformUndo as Command>::apply, on a world that holds the UndoRedo resource:
\* `let _ = use_undoredo_with_commands(world, UndoRedo::undo);`
PerformUndo_apply(h, cmds) ==
    LET r == UndoRedo_undo(h, cmds)
    IN [h |-> r.h, commands |-> r.commands, result |-> "unit"]

\* <PerformRedo as Command>::apply
PerformRedo_apply(h, cmds) ==
    LET r == UndoRedo_redo(h, cmds)
    IN [h |-> r.h, commands |-> r.commands, result |-> "unit"]

\* The system apply_queued_operations: `let _ = undoredo.apply_queue(&mut commands);`
apply_queued_operations(h, queue, cmds) ==
    LET r == UndoRedo_apply_queue(h, queue, cmds)
    IN [h |-> r.h, queue |-> r.queue, commands |-> r.commands, result |-> "unit"]

\* ------------------------------------------------------ actions: UndoRedo
PushToQueue(operation) ==
    /\ subject = "UndoRedo"
    /\ operation \notin Held
    /\ queued_operations' = UndoRedo_push_to_queue(queued_operations, operation)
    /\ commands' = <<>>
    /\ call' = Record("UndoRedo::push_to_queue", <<operation>>, "unit", <<>>)
    /\ pre' = PreState
    /\ UNCHANGED <<subject, op_list, committed, undone, limit, pushed, saved>>
    /\ last_call' = after_call(last_call, commands', Held')

ApplyQueue ==
    /\ subject = "UndoRedo"
    /\ LET r == UndoRedo_apply_queue(self_history, queued_operations, <<>>)
       IN /\ SetHistory(r.h)
          /\ queued_operations' = r.queue
          /\ commands' = r.commands
          /\ call' = Record("UndoRedo::apply_queue", <<>>, r.result, <<>>)
    /\ pre' = PreState
    /\ UNCHANGED <<subject, op_list, pushed, saved>>
    /\ last_call' = after_call(last_call, commands', Held')

PushAndApply(operation) ==
    /\ subject = "UndoRedo"
    /\ operation \notin Held
    /\ LET r == UndoRedo_push_and_apply(self_history, operation, <<>>)
       IN /\ SetHistory(r.h)
          /\ commands' = r.commands
          /\ call' = Record("UndoRedo::push_and_apply", <<operation>>, r.result, <<>>)
    /\ pre' = PreState
    /\ UNCHANGED <<subject, op_list, queued_operations, pushed, saved>>
    /\ last_call' = after_call(last_call, commands', Held')

Redo ==
    /\ subject = "UndoRedo"
    /\ LET r == UndoRedo_redo(self_history, <<>>)
       IN /\ SetHistory(r.h)
          /\ commands' = r.commands
          /\ call' = Record("UndoRedo::redo", <<>>, r.result, <<>>)
    /\ pre' = PreState
    /\ UNCHANGED <<subject, op_list, queued_operations, pushed, saved>>
    /\ last_call' = after_call(last_call, commands', Held')

Undo ==
    /\ subject = "UndoRedo"
    /\ LET r == UndoRedo_undo(self_history, <<>>)
       IN /\ SetHistory(r.h)
          /\ commands' = r.commands
          /\ call' = Record("UndoRedo::undo", <<>>, r.result, <<>>)
    /\ pre' = PreState
    /\ UNCHANGED <<subject, op_list, queued_operations, pushed, saved>>
    /\ last_call' = after_call(last_call, commands', Held')

\* UndoRedo::clear
Clear ==
    /\ subject = "UndoRedo"
    /\ SetHistory(History_clear(self_history))
    /\ queued_operations' = <<>>
    /\ commands' = <<>>
    /\ call' = Record("UndoRedo::clear", <<>>, "unit", <<>>)
    /\ pre' = PreState
    /\ UNCHANGED <<subject, op_list, pushed, saved>>
    /\ last_call' = after_call(last_call, commands', Held')

\* UndoRedo::clear_queue
ClearQueue ==
    /\ subject = "UndoRedo"
    /\ queued_operations' = <<>>
    /\ commands' = <<>>
    /\ call' = Record("UndoRedo::clear_queue", <<>>, "unit", <<>>)
    /\ pre' = PreState
    /\ UNCHANGED <<subject, op_list, committed, undone, limit, pushed, saved>>
    /\ last_call' = after_call(last_call, commands', Held')

\* The command PerformUndo is applied to the world.
PerformUndoApply ==
    /\ subject = "UndoRedo"
    /\ LET r == PerformUndo_apply(self_history, <<>>)
       IN /\ SetHistory(r.h)
          /\ commands' = r.commands
          /\ call' = Record("PerformUndo::apply", <<>>, r.result, <<>>)
    /\ pre' = PreState
    /\ UNCHANGED <<subject, op_list, queued_operations, pushed, saved>>
    /\ last_call' = after_call(last_call, commands', Held')

\* The command PerformRedo is applied to the world.
PerformRedoApply ==
    /\ subject = "UndoRedo"
    /\ LET r == PerformRedo_apply(self_history, <<>>)
       IN /\ SetHistory(r.h)
          /\ commands' = r.commands
          /\ call' = Record("PerformRedo::apply", <<>>, r.result, <<>>)
    /\ pre' = PreState
    /\ UNCHANGED <<subject, op_list, queued_operations, pushed, saved>>
    /\ last_call' = after_call(last_call, commands', Held')

\* The schedule runs the system apply_queued_operations.
ApplyQueuedOperations ==
    /\ subject = "UndoRedo"
    /\ LET r == apply_queued_operations(self_history, queued_operations, <<>>)
       IN /\ SetHistory(r.h)
          /\ queued_operations' = r.queue
          /\ commands' = r.commands
          /\ call' = Record("apply_queued_operations", <<>>, r.result, <<>>)
    /\ pre' = PreState
    /\ UNCHANGED <<subject, op_list, pushed, saved>>
    /\ last_call' = after_call(last_call, commands', Held')

UndoRedoNext ==
    \/ \E operation \in Ops : PushToQueue(operation)
    \/ ApplyQueue
    \/ \E operation \in Ops : PushAndApply(operation)
    \/ Redo
    \/ Undo
    \/ Clear
    \/ ClearQueue
    \/ PerformUndoApply
    \/ PerformRedoApply
    \/ ApplyQueuedOperations

\* --------------------------------------------- composite operations
\* Iterator::rev over a list.
RECURSIVE rev(_)
rev(s) == IF s = <<>> THEN <<>> ELSE Append(rev(Tail(s)), Head(s))

\* `for op in list { op.apply(commands); }`
RECURSIVE apply_in_turn(_, _)
apply_in_turn(list, cmds) ==
    IF list = <<>> THEN cmds
    ELSE apply_in_turn(Tail(list), Operation_apply(Head(list), cmds))

\* `for op in list { op.undo(commands); }`
RECURSIVE undo_in_turn(_, _)
undo_in_turn(list, cmds) ==
    IF list = <<>> THEN cmds
    ELSE undo_in_turn(Tail(list), Operation_undo(Head(list), cmds))

\* OperationGroup::push
OperationGroup_push(list, operation) == Append(list, operation)

\* <OperationGroup as Operation>::apply
OperationGroup_apply(list, cmds) == apply_in_turn(list, cmds)

\* <OperationGroup as Operation>::undo
OperationGroup_undo(list, cmds) == undo_in_turn(rev(list), cmds)

\* Set::push
Set_push(list, operation) == Append(list, operation)

\* <Set as Operation>::apply
Set_apply(list, cmds) == apply_in_turn(list, cmds)

\* Mutant of <Set as Operation>::undo: the children are undone in push order
\* (the .rev() is missing).
Set_undo_forward(list, cmds) == undo_in_turn(list, cmds)

\* <Set as Operation>::undo
Set_undo(list, cmds) == undo_in_turn(rev(list), cmds)

Composites == {"OperationGroup", "Set"}

\* Dispatch on the concrete type of the composite.
Composite_push(kind, list, operation) ==
    IF kind = "OperationGroup" THEN OperationGroup_push(list, operation)
    ELSE Set_push(list, operation)

Composite_apply(kind, list, cmds) ==
    IF kind = "OperationGroup" THEN OperationGroup_apply(list, cmds)
    ELSE Set_apply(list, cmds)

Composite_undo(kind, list, cmds) ==
    IF kind = "OperationGroup" THEN OperationGroup_undo(list, cmds)
    ELSE Set_undo(list, cmds)

\* ---------------------------------------------------- actions: composites
\* A child is an owned box: a new object, not one the composite already holds.
CompositePush(operation) ==
    /\ subject \in Composites
    /\ operation \notin Range(op_list)
    /\ op_list' = Composite_push(subject, op_list, operation)
    /\ commands' = <<>>
    /\ call' = Record("Composite::push", <<operation>>, "unit", <<>>)
    /\ pre' = PreState
    /\ pushed' = Append(pushed, operation)
    /\ UNCHANGED <<subject, committed, undone, limit, queued_operations, saved>>
    /\ UNCHANGED last_call

CompositeApply ==
    /\ subject \in Composites
    /\ commands' = Composite_apply(subject, op_list, <<>>)
    /\ call' = Record("Composite::apply", <<>>, "unit", <<>>)
    /\ pre' = PreState
    /\ UNCHANGED <<subject, committed, undone, limit, queued_operations, op_list,
                   pushed, saved>>
    /\ UNCHANGED last_call

CompositeUndo ==
    /\ subject \in Composites
    /\ commands' = Composite_undo(subject, op_list, <<>>)
    /\ call' = Record("Composite::undo", <<>>, "unit", <<>>)
    /\ pre' = PreState
    /\ UNCHANGED <<subject, committed, undone, limit, queued_operations, op_list,
                   pushed, saved>>
    /\ UNCHANGED last_call

CompositeNext ==
    \/ \E operation \in Ops : CompositePush(operation)
    \/ CompositeApply
    \/ CompositeUndo

\* ------------------------------------------------------------------ Action
\* A child's get_apply_command() / get_undo_command(): a CommandQueue holding the
\* command that applies / undoes that child.
Operation_get_apply_command(op) == <<<<"apply", op>>>>
Operation_get_undo_command(op) == <<<<"undo", op>>>>

\* Action::push
Action_push(list, operation) == Append(list, operation)

\* <Action as Operation>::get_apply_command: `for op in &self.op_list`, each
\* child's queue appended to the queue returned.
RECURSIVE Action_get_apply_command(_)
Action_get_apply_command(list) ==
    IF list = <<>> THEN <<>>
    ELSE Operation_get_apply_command(Head(list)) \o Action_get_apply_command(Tail(list))

\* Mutant of <Action as Operation>::get_undo_command: the children are visited
\* back to front (`self.op_list.iter().rev()`).
RECURSIVE Action_get_undo_command_reversed(_)
Action_get_undo_command_reversed(list) ==
    IF list = <<>> THEN <<>>
    ELSE Action_get_undo_command_reversed(Tail(list))
             \o Operation_get_undo_command(Head(list))

\* <Action as Operation>::get_undo_command: `for op in &self.op_list` as well, so
\* the children are visited front to back.
RECURSIVE Action_get_undo_command(_)
Action_get_undo_command(list) ==
    IF list = <<>> THEN <<>>
    ELSE Operation_get_undo_command(Head(list)) \o Action_get_undo_command(Tail(list))

\* -------------------------------------------------------- actions: Action
ActionPush(operation) ==
    /\ subject = "Action"
    /\ operation \notin Range(op_list)
    /\ op_list' = Action_push(op_list, operation)
    /\ commands' = <<>>
    /\ call' = Record("Action::push", <<operation>>, "unit", <<>>)
    /\ pre' = PreState
    /\ pushed' = Append(pushed, operation)
    /\ UNCHANGED <<subject, committed, undone, limit, queued_operations, saved>>
    /\ UNCHANGED last_call

\* The queue returned is kept in `commands`.
ActionGetApplyCommand ==
    /\ subject = "Action"
    /\ commands' = Action_get_apply_command(op_list)
    /\ call' = Record("Action::get_apply_command", <<>>, "CommandQueue", <<>>)
    /\ pre' = PreState
    /\ UNCHANGED <<subject, committed, undone, limit, queued_operations, op_list,
                   pushed, saved>>
    /\ UNCHANGED last_call

ActionGetUndoCommand ==
    /\ subject = "Action"
    /\ commands' = Action_get_undo_command(op_list)
    /\ call' = Record("Action::get_undo_command", <<>>, "CommandQueue", <<>>)
    /\ pre' = PreState
    /\ UNCHANGED <<subject, committed, undone, limit, queued_operations, op_list,
                   pushed, saved>>
    /\ UNCHANGED last_call

ActionNext ==
    \/ \E operation \in Ops : ActionPush(operation)
    \/ ActionGetApplyCommand
    \/ ActionGetUndoCommand

\* ------------------------------------------------------------ iterators
\* An iterator is modelled as the sequence of the items it has yet to yield, in
\* the order next() yields them; next_back() yields them from the other end.
\* Iterator::next
Iterator_next(it) ==
    IF it = <<>> THEN [item |-> None, it |-> it]
    ELSE [item |-> Some(Head(it)), it |-> Tail(it)]

\* DoubleEndedIterator::next_back
Iterator_next_back(it) ==
    IF it = <<>> THEN [item |-> None, it |-> it]
    ELSE [item |-> Some(Last(it)), it |-> Front(it)]

\* ExactSizeIterator::len
Iterator_len(it) == Len(it)

\* CommittedIter::new: wraps the VecDeque iterator as it is.
CommittedIter_new(committed_iter) == committed_iter

\* Mutant of UndoneIter::new: the slice iterator is wrapped without .rev().
UndoneIter_new_forward(undone_iter) == undone_iter

\* UndoneIter::new: wraps the slice iterator reversed.
UndoneIter_new(undone_iter) == rev(undone_iter)

\* Iter::new: the committed iterator chained with the undone iterator.
Iter_new(committed_iter, undone_iter) == committed_iter \o undone_iter

\* History::iter_committed, over self.committed front to back.
History_iter_committed(h) == CommittedIter_new(h.committed)

\* History::iter_undone, over the slice self.undone.
History_iter_undone(h) == UndoneIter_new(h.undone)

\* History::iter
History_iter(h) == Iter_new(History_iter_committed(h), History_iter_undone(h))

\* The items next() yields until it returns None.
RECURSIVE collect(_)
collect(it) ==
    LET r == Iterator_next(it)
    IN IF r.item = None THEN <<>> ELSE r.item \o collect(r.it)

\* The items next_back() yields until it returns None.
RECURSIVE collect_back(_)
collect_back(it) ==
    LET r == Iterator_next_back(it)
    IN IF r.item = None THEN <<>> ELSE r.item \o collect_back(r.it)

\* ----------------------------------------------------------- specification
NoCall == Record("new", <<>>, "unit", <<>>)

\* A History<T> built by History::new() or collected from an iterator.
HistoryInit ==
    /\ subject = "History"
    /\ \E iter \in SeqsUpTo(Items, MaxExtend) :
          /\ committed = History_from_iter(iter).committed
          /\ undone = History_from_iter(iter).undone
          /\ limit = History_from_iter(iter).limit
    /\ queued_operations = <<>>

\* UndoRedo::default(): derived Default, so an empty queue and History::default().
UndoRedoInit ==
    /\ subject = "UndoRedo"
    /\ committed = History_new.committed
    /\ undone = History_new.undone
    /\ limit = History_new.limit
    /\ queued_operations = <<>>

\* OperationGroup::new / Set::new: no children yet.
CompositeInit ==
    /\ subject \in Composites
    /\ committed = <<>>
    /\ undone = <<>>
    /\ limit = None
    /\ queued_operations = <<>>

\* Action::new: no children yet.
ActionInit ==
    /\ subject = "Action"
    /\ committed = <<>>
    /\ undone = <<>>
    /\ limit = None
    /\ queued_operations = <<>>

Init ==
    /\ HistoryInit \/ UndoRedoInit \/ CompositeInit \/ ActionInit
    /\ op_list = <<>>
    /\ commands = <<>>
    /\ call = NoCall
    /\ pre = PreState
    /\ pushed = <<>>
    /\ saved = <<>>
    /\ last_call = NeverCalled

Next == HistoryNext \/ UndoRedoNext \/ CompositeNext \/ ActionNext

Spec == Init /\ [][Next]_vars

\* The scenario of pushing, undoing and redoing the items 1, 2, 3, 4 on a fresh
\* unlimited History: History::new(), then any sequence of push, undo and redo.
ScenarioItems == 1..4

ScenarioInit ==
    /\ subject = "History"
    /\ committed = History_new.committed
    /\ undone = History_new.undone
    /\ limit = History_new.limit
    /\ queued_operations = <<>>
    /\ op_list = <<>>
    /\ commands = <<>>
    /\ call = NoCall
    /\ pre = PreState
    /\ pushed = <<>>
    /\ saved = <<>>
    /\ last_call = NeverCalled

ScenarioNext ==
    \/ \E item \in ScenarioItems : HistoryPush(item)
    \/ HistoryUndo
    \/ HistoryRedo

SpecScenario == ScenarioInit /\ [][ScenarioNext]_vars

\* A History created empty whose owner sets `limit` once, before anything is
\* pushed, and never assigns it again.
FixedLimitInit ==
    /\ subject = "History"
    /\ committed = History_new.committed
    /\ undone = History_new.undone
    /\ \E n \in 1..MaxLimit : limit = Some(n)
    /\ queued_operations = <<>>
    /\ op_list = <<>>
    /\ commands = <<>>
    /\ call = NoCall
    /\ pre = PreState
    /\ pushed = <<>>
    /\ saved = <<>>
    /\ last_call = NeverCalled

FixedLimitNext ==
    \/ \E item \in Items : HistoryPush(item)
    \/ HistoryUndo
    \/ HistoryRedo
    \/ HistoryClear
    \/ HistoryClearUndone
    \/ \E iter \in SeqsUpTo(Items, MaxExtend) : HistoryExtend(iter)

SpecFixedLimit == FixedLimitInit /\ [][FixedLimitNext]_vars

\* An UndoRedo whose history has a limit.  The field `history` is private and
\* nothing in the crate assigns its limit: UndoRedo { history, .. } with a limited
\* History is a value of the type that only code inside the crate can build.  It
\* is the input on which apply_queue meets History::push's limit enforcement.
LimitedInit ==
    /\ subject = "UndoRedo"
    /\ committed = History_new.committed
    /\ undone = History_new.undone
    /\ \E n \in 1..MaxLimit : limit = Some(n)
    /\ queued_operations = <<>>
    /\ op_list = <<>>
    /\ commands = <<>>
    /\ call = NoCall
    /\ pre = PreState
    /\ pushed = <<>>
    /\ saved = <<>>
    /\ last_call = NeverCalled

SpecLimited == LimitedInit /\ [][UndoRedoNext]_vars

\* ------------------------------------------------------------------ claims
\* The commands a call queues when it applies the operations ops in order.
AppliedInOrder(ops) == [i \in 1..Len(ops) |-> <<"apply", ops[i]>>]

\* C1: after History::push(x), whatever committed, undone and limit were before,
\* the undone list is empty and x is the last element of committed.
C1_PushClearsUndone ==
    call.name = "History::push" =>
        /\ undone = <<>>
        /\ committed # <<>>
        /\ Last(committed) = call.args[1]

\* A push into a history that had undone items and was already at its limit.
C1_Witness ==
    /\ call.name = "History::push"
    /\ pre.undone # <<>>
    /\ limit # None
    /\ Len(pre.committed) >= limit[1]

\* C2: with limit = n, after a run of m > n consecutive pushes committed has
\* exactly n items: the n most recently pushed, in push order.
C2_LimitKeepsMostRecent ==
    (limit # None /\ Len(pushed) > limit[1]) =>
        /\ Len(committed) = limit[1]
        /\ committed = LastN(pushed, limit[1])

\* Three pushes a, b, a' into a history of limit 2, the last two of them different.
C2_Witness ==
    /\ limit = Some(2)
    /\ Len(pushed) = 3
    /\ pushed[2] # pushed[3]
    /\ call.name = "History::push"

\* C3: when limit is set, right after any push committed.len() <= limit, also when
\* committed was longer than limit before the push; the excess is culled from the
\* front, so what remains is the newest end of the old list followed by the item.
C3_PushEnforcesLimit ==
    (call.name = "History::push" /\ limit # None) =>
        /\ Len(committed) <= limit[1]
        /\ committed = LastN(Append(pre.committed, call.args[1]), limit[1])

\* A push into a history whose committed list was longer than its (lowered) limit.
C3_Witness ==
    /\ call.name = "History::push"
    /\ limit # None
    /\ Len(pre.committed) > limit[1]

\* C4: a successful undo() followed immediately by redo() leaves committed and
\* undone as they were before the undo: same items, same order.
C4_UndoRedoRoundTrip ==
    (call.name = "History::redo" /\ saved # <<>>) =>
        /\ call.result = "Ok"
        /\ committed = saved[1]
        /\ undone = saved[2]

\* A round trip on a history whose committed list is at or over its limit, with
\* older undone items below the one that makes the trip.
C4_Witness ==
    /\ call.name = "History::redo"
    /\ saved # <<>>
    /\ limit # None
    /\ Len(saved[1]) >= limit[1]
    /\ saved[2] # <<>>

\* C5: History::undo on a non-empty committed list removes exactly its last
\* element, appends it to the end of undone, leaves all other elements in place,
\* and returns a reference to the moved element, now the last of undone.
C5_UndoMovesLast ==
    (call.name = "History::undo" /\ pre.committed # <<>>) =>
        /\ call.result = "Ok"
        /\ committed = Front(pre.committed)
        /\ undone = Append(pre.undone, Last(pre.committed))
        /\ call.ref = <<"undone", Len(undone)>>
        /\ Deref(self_history, call.ref) = Last(pre.committed)

\* An undo with items left in committed and older items already in undone.
C5_Witness ==
    /\ call.name = "History::undo"
    /\ Len(pre.committed) >= 2
    /\ pre.undone # <<>>
    /\ pre.committed[Len(pre.committed) - 1] # Last(pre.committed)

\* C6: History::redo on a non-empty undone list removes exactly its last element,
\* appends it to the end of committed and returns it; no committed item is evicted,
\* also when a limit is set and committed is already at or above it.
C6_RedoLosesNothing ==
    (call.name = "History::redo" /\ pre.undone # <<>>) =>
        /\ call.result = "Ok"
        /\ undone = Front(pre.undone)
        /\ committed = Append(pre.committed, Last(pre.undone))
        /\ call.ref = <<"committed", Len(committed)>>
        /\ Deref(self_history, call.ref) = Last(pre.undone)

\* A redo into a committed list that was already at or above the limit.
C6_Witness ==
    /\ call.name = "History::redo"
    /\ pre.undone # <<>>
    /\ limit # None
    /\ Len(pre.committed) >= limit[1]
    /\ Len(committed) > limit[1]

\* C7: undo with empty committed and redo with empty undone, on a History and on
\* an UndoRedo, return NoApplicableHistory, leave committed, undone and the queue
\* as they were and invoke no operation's apply or undo.
C7_EmptyHistoryErrors ==
    LET empty_undo == call.name \in {"History::undo", "UndoRedo::undo"}
                          /\ pre.committed = <<>>
        empty_redo == call.name \in {"History::redo", "UndoRedo::redo"}
                          /\ pre.undone = <<>>
    IN (empty_undo \/ empty_redo) =>
           /\ call.result = "NoApplicableHistory"
           /\ committed = pre.committed
           /\ undone = pre.undone
           /\ queued_operations = pre.queued_operations
           /\ commands = <<>>

\* UndoRedo::redo fails while operations are committed and others wait in the queue.
C7_Witness ==
    /\ call.name = "UndoRedo::redo"
    /\ pre.undone = <<>>
    /\ pre.committed # <<>>
    /\ pre.queued_operations # <<>>
    /\ call.result = "NoApplicableHistory"

\* C8: UndoRedo::apply_queue with an empty queue returns NoQueuedOperations and
\* changes nothing: committed and undone stay (undone is not cleared), no apply.
C8_ApplyEmptyQueue ==
    (call.name = "UndoRedo::apply_queue" /\ pre.queued_operations = <<>>) =>
        /\ call.result = "NoQueuedOperations"
        /\ committed = pre.committed
        /\ undone = pre.undone
        /\ queued_operations = <<>>
        /\ commands = <<>>

\* apply_queue on an empty queue while there are undone operations to keep.
C8_Witness ==
    /\ call.name = "UndoRedo::apply_queue"
    /\ pre.queued_operations = <<>>
    /\ pre.undone # <<>>
    /\ undone # <<>>

\* C9: UndoRedo::apply_queue with a non-empty queue drains it all: the queue and
\* undone are empty afterwards and, with no limit, committed is the previous
\* committed followed by the queued operations in enqueue order.
C9_ApplyQueueDrains ==
    (call.name = "UndoRedo::apply_queue" /\ pre.queued_operations # <<>>) =>
        /\ call.result = "Ok"
        /\ queued_operations = <<>>
        /\ undone = <<>>
        /\ limit = None => committed = pre.committed \o pre.queued_operations

\* Two or more queued operations applied on top of committed and undone ones.
C9_Witness ==
    /\ call.name = "UndoRedo::apply_queue"
    /\ Len(pre.queued_operations) >= 2
    /\ pre.committed # <<>>
    /\ pre.undone # <<>>
    /\ limit = None

\* C10: one apply_queue call invokes apply on the queued operations in enqueue
\* order, once each: the commands it queues are theirs, in that order.
C10_ApplyInEnqueueOrder ==
    call.name = "UndoRedo::apply_queue" =>
        commands = AppliedInOrder(pre.queued_operations)

\* An apply_queue call that applied three operations.
C10_Witness ==
    /\ call.name = "UndoRedo::apply_queue"
    /\ Len(pre.queued_operations) >= 3
    /\ Len(commands) >= 3

\* The commands a call queues when it undoes the operations ops in order.
UndoneInOrder(ops) == [i \in 1..Len(ops) |-> <<"undo", ops[i]>>]

\* The sequence s back to front.
Reversed(s) == [i \in 1..Len(s) |-> s[Len(s) + 1 - i]]

\* C11: for an OperationGroup or Set built by pushing children in some order (say
\* A, B, C), apply invokes apply on the children in push order (A, B, C) and undo
\* invokes undo on them in exactly the reverse order (C, B, A).
C11_CompositeMirroredOrder ==
    subject \in Composites =>
        /\ call.name = "Composite::apply" => commands = AppliedInOrder(pushed)
        /\ call.name = "Composite::undo" => commands = UndoneInOrder(Reversed(pushed))

\* A composite of three children has been undone.
C11_Witness ==
    /\ subject \in Composites
    /\ call.name = "Composite::undo"
    /\ Len(pushed) = 3
    /\ Len(commands) = 3

\* The call `name(args)` made with committed = c0 and undone = u0 and no limit
\* leaves committed = c1 and undone = u1.
Step(name, args, c0, u0, c1, u1) ==
    (/\ call.name = name
     /\ call.args = args
     /\ pre.committed = c0
     /\ pre.undone = u0
     /\ pre.limit = None) =>
        (committed = c1 /\ undone = u1)

\* C12: from an empty history with no limit, push 1, 2, 3, then undo twice gives
\* committed = [1], undone = [3, 2]; redo gives committed = [1, 2], undone = [3];
\* push(4) gives committed = [1, 2, 4], undone = [].  Each call is a function of
\* the lists it starts from, so the trace is the chain of its steps.
C12_ScenarioTrace ==
    /\ Step("History::push", <<1>>, <<>>, <<>>, <<1>>, <<>>)
    /\ Step("History::push", <<2>>, <<1>>, <<>>, <<1, 2>>, <<>>)
    /\ Step("History::push", <<3>>, <<1, 2>>, <<>>, <<1, 2, 3>>, <<>>)
    /\ Step("History::undo", <<>>, <<1, 2, 3>>, <<>>, <<1, 2>>, <<3>>)
    /\ Step("History::undo", <<>>, <<1, 2>>, <<3>>, <<1>>, <<3, 2>>)
    /\ Step("History::redo", <<>>, <<1>>, <<3, 2>>, <<1, 2>>, <<3>>)
    /\ Step("History::push", <<4>>, <<1, 2>>, <<3>>, <<1, 2, 4>>, <<>>)

\* The last step of the scenario: push(4) on committed = [1, 2], undone = [3].
C12_Witness ==
    /\ call.name = "History::push"
    /\ call.args = <<4>>
    /\ pre.committed = <<1, 2>>
    /\ pre.undone = <<3>>
    /\ limit = None
    /\ committed = <<1, 2, 4>>
    /\ undone = <<>>

\* C13: UndoRedo::push_to_queue only appends the operation to the back of the
\* queue: committed and undone are unchanged, no apply or undo is invoked, and the
\* operations queued earlier keep their order.
C13_EnqueueOnlyAppends ==
    call.name = "UndoRedo::push_to_queue" =>
        /\ queued_operations = Append(pre.queued_operations, call.args[1])
        /\ committed = pre.committed
        /\ undone = pre.undone
        /\ commands = <<>>

\* An operation is queued behind two others, with committed and undone operations.
C13_Witness ==
    /\ call.name = "UndoRedo::push_to_queue"
    /\ Len(pre.queued_operations) >= 1
    /\ pre.committed # <<>>
    /\ pre.undone # <<>>

\* C14: a successful UndoRedo::undo invokes undo exactly once, on the operation
\* that was last in committed and is now in undone; a successful UndoRedo::redo
\* invokes apply exactly once, on the operation that was last in undone and is now
\* back in committed; nothing else is applied or undone.
C14_UndoRedoInvokeOnce ==
    /\ (call.name = "UndoRedo::undo" /\ call.result = "Ok") =>
           /\ pre.committed # <<>>
           /\ commands = <<<<"undo", Last(pre.committed)>>>>
           /\ undone = Append(pre.undone, Last(pre.committed))
           /\ committed = Front(pre.committed)
    /\ (call.name = "UndoRedo::redo" /\ call.result = "Ok") =>
           /\ pre.undone # <<>>
           /\ commands = <<<<"apply", Last(pre.undone)>>>>
           /\ committed = Append(pre.committed, Last(pre.undone))
           /\ undone = Front(pre.undone)

\* A successful redo with other operations in committed and in undone.
C14_Witness ==
    /\ call.name = "UndoRedo::redo"
    /\ call.result = "Ok"
    /\ Len(pre.undone) >= 2
    /\ pre.committed # <<>>
    /\ Len(commands) = 1

\* s holds no item twice.
NoDuplicates(s) == \A i, j \in 1..Len(s) : s[i] = s[j] => i = j

\* C15: in every state of the UndoRedo no operation is held by two of the lists
\* queue, committed and undone, and no operation is twice in one list.
C15_ExclusiveOwnership ==
    subject = "UndoRedo" =>
        NoDuplicates(queued_operations \o committed \o undone)

\* All three lists hold operations, after something was undone.
C15_Witness ==
    /\ subject = "UndoRedo"
    /\ queued_operations # <<>>
    /\ Len(committed) >= 2
    /\ undone # <<>>

\* The operations the UndoRedo had accepted when the last call returned: those it
\* held before the call and the one the call was given.
Accepted ==
    Range(pre.queued_operations) \cup Range(pre.committed) \cup Range(pre.undone)
        \cup (IF call.name \in {"UndoRedo::push_to_queue", "UndoRedo::push_and_apply"}
              THEN Range(call.args) ELSE {})

\* The calls the claim is about.
MovingCalls ==
    {"UndoRedo::push_to_queue", "UndoRedo::apply_queue", "UndoRedo::push_and_apply",
     "UndoRedo::undo", "UndoRedo::redo"}

\* What push's limit enforcement may have evicted in the last call: nothing
\* without a limit, with one only operations that went through committed.
EvictedByLimit ==
    IF limit = None THEN {}
    ELSE Range(pre.committed) \cup Range(pre.queued_operations) \cup Range(call.args)

\* What the last call discarded from undone by pushing: a successful apply_queue or
\* push_and_apply discards every undone operation.
ClearedByPush ==
    IF call.name \in {"UndoRedo::apply_queue", "UndoRedo::push_and_apply"}
       /\ call.result = "Ok"
    THEN Range(pre.undone) ELSE {}

\* C16 as stated: across push_to_queue, apply_queue, push_and_apply, undo and redo
\* an accepted operation stays in exactly one of queue, committed and undone; it
\* leaves all three only by push's eviction of the oldest committed items.
C16_NoSilentDrops_AsStated ==
    (subject = "UndoRedo" /\ call.name \in MovingCalls) =>
        /\ NoDuplicates(queued_operations \o committed \o undone)
        /\ Accepted \ Held \subseteq EvictedByLimit

\* C16 amended: an accepted operation stays in exactly one of the three lists and
\* leaves them only by push's eviction of the oldest committed items or because
\* push clears undone: a successful apply_queue or push_and_apply discards every
\* operation that was in undone (all of them, when there is no limit nothing else).
C16_NoSilentDrops ==
    (subject = "UndoRedo" /\ call.name \in MovingCalls) =>
        /\ NoDuplicates(queued_operations \o committed \o undone)
        /\ Accepted \ Held \subseteq EvictedByLimit \cup ClearedByPush
        /\ ClearedByPush \subseteq Accepted \ Held
        /\ limit = None => Accepted \ Held = ClearedByPush

\* apply_queue discarded two undone operations while others stayed committed.
C16_Witness ==
    /\ subject = "UndoRedo"
    /\ call.name = "UndoRedo::apply_queue"
    /\ call.result = "Ok"
    /\ Len(pre.undone) >= 2
    /\ pre.committed # <<>>
    /\ Range(pre.undone) \cap Held = {}

\* C17: UndoRedo::push_and_apply applies the given operation exactly once and
\* pushes it onto committed, always returns Ok, leaves the queue untouched and
\* discards all undone operations.
C17_PushAndApply ==
    call.name = "UndoRedo::push_and_apply" =>
        /\ call.result = "Ok"
        /\ commands = <<<<"apply", call.args[1]>>>>
        /\ committed # <<>>
        /\ Last(committed) = call.args[1]
        /\ limit = None => committed = Append(pre.committed, call.args[1])
        /\ queued_operations = pre.queued_operations
        /\ undone = <<>>

\* push_and_apply with operations waiting in the queue and operations undone.
C17_Witness ==
    /\ call.name = "UndoRedo::push_and_apply"
    /\ pre.queued_operations # <<>>
    /\ pre.undone # <<>>
    /\ pre.committed # <<>>

\* C18: iter_committed yields the committed items oldest to newest, iter_undone
\* the undone items from the most recently undone to the least recently undone,
\* iter the first traversal followed by the second; each traversed from the back
\* yields the exact reverse; the lengths of the committed and undone traversals
\* are the lengths of the lists.
C18_TraversalOrder ==
    LET c == History_iter_committed(self_history)
        u == History_iter_undone(self_history)
        all == History_iter(self_history)
    IN /\ collect(c) = committed
       /\ collect(u) = Reversed(undone)
       /\ collect(all) = committed \o Reversed(undone)
       /\ collect_back(c) = Reversed(collect(c))
       /\ collect_back(u) = Reversed(collect(u))
       /\ collect_back(all) = Reversed(collect(all))
       /\ Iterator_len(c) = Len(committed)
       /\ Iterator_len(u) = Len(undone)
       /\ (call.name = "History::push") =>
              Last(collect(c)) = call.args[1]
       /\ (call.name = "History::undo" /\ call.result = "Ok") =>
              Head(collect(u)) = Last(pre.committed)

\* A history with several committed items and two different undone items, the
\* second of them just undone.
C18_Witness ==
    /\ call.name = "History::undo"
    /\ call.result = "Ok"
    /\ Len(undone) >= 2
    /\ undone[Len(undone)] # undone[Len(undone) - 1]
    /\ committed # <<>>

\* C19: History::clear empties committed and undone; History::clear_undone empties
\* undone and leaves committed; UndoRedo::clear empties committed, undone and the
\* queue; UndoRedo::clear_queue empties the queue and leaves committed and undone;
\* none of them invokes apply or undo or changes limit.
C19_Resets ==
    /\ call.name = "History::clear" =>
           committed = <<>> /\ undone = <<>>
    /\ call.name = "History::clear_undone" =>
           committed = pre.committed /\ undone = <<>>
    /\ call.name = "UndoRedo::clear" =>
           committed = <<>> /\ undone = <<>> /\ queued_operations = <<>>
    /\ call.name = "UndoRedo::clear_queue" =>
           committed = pre.committed /\ undone = pre.undone /\ queued_operations = <<>>
    /\ call.name \in {"History::clear", "History::clear_undone", "UndoRedo::clear",
                      "UndoRedo::clear_queue"} =>
           commands = <<>> /\ limit = pre.limit

\* UndoRedo::clear on an UndoRedo with operations in all three lists.
C19_Witness ==
    /\ call.name = "UndoRedo::clear"
    /\ pre.committed # <<>>
    /\ pre.undone # <<>>
    /\ pre.queued_operations # <<>>

\* The calls that redo and the calls that undo, the deferred commands included.
RedoCalls == {"History::redo", "UndoRedo::redo", "PerformRedo::apply"}
UndoCalls == {"History::undo", "UndoRedo::undo", "PerformUndo::apply"}

\* The last call committed something: a successful apply_queue or push_and_apply,
\* a run of apply_queued_operations that found operations queued, or a
\* History::push.
Committed ==
    \/ call.name \in {"UndoRedo::apply_queue", "UndoRedo::push_and_apply"}
           /\ call.result = "Ok"
    \/ call.name = "apply_queued_operations" /\ pre.queued_operations # <<>>
    \/ call.name = "History::push"

\* After a commit nothing is undone, and the operations of an UndoRedo that were
\* undone before it are in none of its lists.
C20_AfterCommit ==
    Committed =>
        /\ undone = <<>>
        /\ subject = "UndoRedo" => Range(pre.undone) \cap Held = {}

\* What a step can do to the undone list and to the operations held.
C20_Step ==
    \* redo fails and changes nothing while undone is empty
    /\ (call'.name \in RedoCalls /\ undone = <<>>) =>
           /\ call'.result = IF call'.name = "PerformRedo::apply"
                             THEN "unit" ELSE "NoApplicableHistory"
           /\ undone' = <<>>
           /\ committed' = committed
    \* a successful redo restores the last undone item and nothing else
    /\ (call'.name \in RedoCalls /\ committed' # committed) =>
           /\ call'.result \in {"Ok", "unit"}
           /\ undone # <<>>
           /\ committed' = Append(committed, Last(undone))
    \* only a successful undo adds to undone, and what it adds comes from committed
    /\ Len(undone') > Len(undone) =>
           /\ call'.name \in UndoCalls
           /\ call'.result \in {"Ok", "unit"}
           /\ committed # <<>>
           /\ undone' = Append(undone, Last(committed))
    \* an UndoRedo comes to hold only the operations it is handed
    /\ subject = "UndoRedo" =>
           Held' \ Held \subseteq
               (IF call'.name \in {"UndoRedo::push_to_queue", "UndoRedo::push_and_apply"}
                THEN Range(call'.args) ELSE {})

\* C20: after any successful apply_queue, push_and_apply or History::push, redo
\* returns NoApplicableHistory until a later undo succeeds, and the operations
\* undone before the commit can never be redone again: they are in no list, redo
\* restores only from undone, and undone is refilled only from committed.
C20_HistoryForks == [](C20_AfterCommit) /\ [][C20_Step]_vars

\* push_and_apply on an UndoRedo that had two undone operations.
C20_Witness ==
    /\ call.name = "UndoRedo::push_and_apply"
    /\ call.result = "Ok"
    /\ Len(pre.undone) >= 2
    /\ undone = <<>>
    /\ Range(pre.undone) \cap Held = {}

\* Each command of cmds, in order, is a call that may follow the calls made so far
\* on its operation: apply not after apply, undo only after apply.
RECURSIVE Alternates(_, _)
Alternates(lc, cmds) ==
    \/ cmds = <<>>
    \/ /\ Head(cmds)[1] = "apply" => lc[Head(cmds)[2]] # "apply"
       /\ Head(cmds)[1] = "undo" => lc[Head(cmds)[2]] = "apply"
       /\ Alternates(note_calls(lc, <<Head(cmds)>>), Tail(cmds))

\* The calls one step of the UndoRedo makes, against the calls made before it.
C21_Step == subject = "UndoRedo" => Alternates(last_call, commands')

\* C21: over any sequence of push_to_queue, apply_queue, push_and_apply, undo,
\* redo, clear and clear_queue calls, the calls made on one operation alternate
\* apply, undo, apply, ... starting with apply: undo is never invoked on an
\* operation whose last call was not apply, apply never twice without an undo
\* in between.
C21_MatchingCalls == [][C21_Step]_vars

\* An operation applied, undone and applied again by redo, while another stays
\* undone and a third waits in the queue.
C21_Witness ==
    /\ call.name = "UndoRedo::redo"
    /\ call.result = "Ok"
    /\ commands = <<<<"apply", Last(committed)>>>>
    /\ last_call[Last(committed)] = "apply"
    /\ undone # <<>>
    /\ last_call[Last(undone)] = "undo"
    /\ queued_operations # <<>>

\* C22: in every state of the UndoRedo, every committed operation has apply as
\* the last call invoked on it, every undone operation has undo, and on a queued
\* operation neither apply nor undo was ever invoked.
C22_MembershipTracksEffect ==
    subject = "UndoRedo" =>
        /\ \A op \in Range(committed) : last_call[op] = "apply"
        /\ \A op \in Range(undone) : last_call[op] = "undo"
        /\ \A op \in Range(queued_operations) : last_call[op] = "none"

\* Operations in all three lists, the last committed one put back by a redo.
C22_Witness ==
    /\ subject = "UndoRedo"
    /\ call.name = "UndoRedo::redo"
    /\ call.result = "Ok"
    /\ Len(committed) >= 2
    /\ undone # <<>>
    /\ queued_operations # <<>>

\* The greatest length committed had after any statement of the last call, a
\* History::push or History::extend.
peak ==
    IF call.name = "History::push"
    THEN Max(History_push_lens(pre_history, call.args[1]))
    ELSE Max(History_extend_lens(pre_history, call.args))

\* C23: when a limit is set and committed.len() <= limit before the call,
\* committed.len() exceeds limit at no intermediate step of History::push or
\* History::extend, however many items are extended: the oldest items are
\* evicted before the new item is appended, never after.
C23_NoTransientOverflow ==
    (/\ call.name \in {"History::push", "History::extend"}
     /\ pre.limit # None
     /\ Len(pre.committed) <= pre.limit[1]) =>
        peak <= pre.limit[1]

\* Two or more items extended into a history that was already full.
C23_Witness ==
    /\ call.name = "History::extend"
    /\ Len(call.args) >= 2
    /\ pre.limit # None
    /\ Len(pre.committed) = pre.limit[1]
    /\ peak = pre.limit[1]

\* C24: with a limit n set while the history is empty and never changed, every
\* state reached through push, extend, undo, redo, clear and clear_undone has
\* committed.len() + undone.len() <= n; so redo, which evicts nothing, never
\* makes committed longer than the limit.
C24_ListsWithinLimit ==
    /\ limit # None
    /\ Len(committed) + Len(undone) <= limit[1]
    /\ call.name = "History::redo" =>
           /\ Len(committed) <= limit[1]
           /\ call.result = "Ok" => committed = Append(pre.committed, Last(pre.undone))

\* A redo that brings committed back to exactly its limit, above one item kept.
C24_Witness ==
    /\ call.name = "History::redo"
    /\ call.result = "Ok"
    /\ pre.committed # <<>>
    /\ limit # None
    /\ Len(committed) = limit[1]

\* C25: History::extend(items) leaves committed and undone as calling push on each
\* item of items in order does, for every item sequence, the empty one included,
\* and whether limit is None or Some.
C25_ExtendIsPushEach ==
    call.name = "History::extend" =>
        /\ committed = push_each(pre_history, call.args).committed
        /\ undone = push_each(pre_history, call.args).undone

\* What holds of History::extend: it differs from pushing each item only when
\* nothing is extended into a history without a limit, where it still clears
\* undone (the None arm calls clear_undone whatever the iterator yields).
C25_ExtendOfNothingClearsUndone ==
    call.name = "History::extend" =>
        /\ committed = push_each(pre_history, call.args).committed
        /\ (pre.limit # None \/ call.args # <<>>) =>
               undone = push_each(pre_history, call.args).undone
        /\ (pre.limit = None /\ call.args = <<>>) => undone = <<>>

\* Nothing was extended into a history without a limit that had undone items.
C25_Witness ==
    /\ call.name = "History::extend"
    /\ call.args = <<>>
    /\ pre.limit = None
    /\ pre.undone # <<>>
    /\ pre.committed # <<>>
    /\ undone = <<>>

\* The calls that move the cursor of a history.
CursorMoves == {"History::undo", "History::redo", "UndoRedo::undo", "UndoRedo::redo"}

\* C26: undo and redo are cursor moves over one fixed sequence: the full
\* traversal iter() (committed oldest to newest, then undone most recently undone
\* first) yields the same items in the same order before and after any undo or
\* redo, successful or failed; only the split point between committed and undone
\* moves, by one on success and not at all on failure.
C26_CursorMoves ==
    call.name \in CursorMoves =>
        /\ collect(History_iter(self_history)) = collect(History_iter(pre_history))
        /\ (call.result = "Ok" /\ call.name \in {"History::undo", "UndoRedo::undo"}) =>
               Len(committed) = Len(pre.committed) - 1
        /\ (call.result = "Ok" /\ call.name \in {"History::redo", "UndoRedo::redo"}) =>
               Len(committed) = Len(pre.committed) + 1
        /\ call.result # "Ok" => Len(committed) = Len(pre.committed)

\* A redo on a history with a committed item and three undone operations, all
\* different.
C26_Witness ==
    /\ call.name = "UndoRedo::redo"
    /\ call.result = "Ok"
    /\ Len(pre.undone) >= 3
    /\ pre.committed # <<>>
    /\ Len(collect(History_iter(self_history))) >= 4

\* The lists and the commands are those the record r of an UndoRedo call gives.
SameEffect(r) ==
    /\ committed = r.h.committed
    /\ undone = r.h.undone
    /\ commands = r.commands

\* C29: the deferred wrappers swallow the empty-state errors: PerformUndo applied
\* with empty committed, PerformRedo applied with empty undone and the system
\* apply_queued_operations run with an empty queue complete without failure and
\* leave queue, committed and undone unchanged; in every other state each has
\* exactly the effect of one UndoRedo::undo, UndoRedo::redo or
\* UndoRedo::apply_queue call.
C29_WrappersSwallowErrors ==
    /\ call.name = "PerformUndo::apply" =>
           /\ call.result = "unit"
           /\ queued_operations = pre.queued_operations
           /\ IF pre.committed = <<>>
              THEN committed = <<>> /\ undone = pre.undone /\ commands = <<>>
              ELSE /\ SameEffect(UndoRedo_undo(pre_history, <<>>))
                   /\ commands = <<<<"undo", Last(pre.committed)>>>>
                   /\ undone = Append(pre.undone, Last(pre.committed))
    /\ call.name = "PerformRedo::apply" =>
           /\ call.result = "unit"
           /\ queued_operations = pre.queued_operations
           /\ IF pre.undone = <<>>
              THEN committed = pre.committed /\ undone = <<>> /\ commands = <<>>
              ELSE /\ SameEffect(UndoRedo_redo(pre_history, <<>>))
                   /\ commands = <<<<"apply", Last(pre.undone)>>>>
                   /\ committed = Append(pre.committed, Last(pre.undone))
    /\ call.name = "apply_queued_operations" =>
           /\ call.result = "unit"
           /\ IF pre.queued_operations = <<>>
              THEN /\ committed = pre.committed /\ undone = pre.undone
                   /\ queued_operations = <<>> /\ commands = <<>>
              ELSE /\ SameEffect(UndoRedo_apply_queue(pre_history,
                                                      pre.queued_operations, <<>>))
                   /\ queued_operations = <<>>
                   /\ commands = AppliedInOrder(pre.queued_operations)
                   /\ undone = <<>>

\* PerformUndo applied with nothing committed, while operations are undone and
\* others are queued: they all stay.
C29_Witness ==
    /\ call.name = "PerformUndo::apply"
    /\ pre.committed = <<>>
    /\ pre.undone # <<>>
    /\ pre.queued_operations # <<>>
    /\ undone = pre.undone
    /\ queued_operations = pre.queued_operations

\* C28: an Action built by pushing children A, B, C mirrors its ordering like the
\* other composites: the apply command queue holds the children's apply commands
\* in order A, B, C and the undo command queue holds their undo commands in
\* reverse order C, B, A.
C28_ActionMirroredOrder ==
    subject = "Action" =>
        /\ call.name = "Action::get_apply_command" => commands = AppliedInOrder(pushed)
        /\ call.name = "Action::get_undo_command" =>
               commands = UndoneInOrder(Reversed(pushed))

\* What holds of Action: the undo command queue holds the children's undo
\* commands in push order A, B, C, the same order as the apply command queue.
C28_ActionUndoInPushOrder ==
    subject = "Action" =>
        /\ call.name = "Action::get_apply_command" => commands = AppliedInOrder(pushed)
        /\ call.name = "Action::get_undo_command" => commands = UndoneInOrder(pushed)

\* The undo command queue of an Action of three children.
C28_Witness ==
    /\ subject = "Action"
    /\ call.name = "Action::get_undo_command"
    /\ Len(pushed) = 3
    /\ Len(commands) = 3
    /\ commands[1] = <<"undo", pushed[1]>>

\* The queue drained by the last call was longer than the limit of the history.
C27_Overfull ==
    /\ call.name = "UndoRedo::apply_queue"
    /\ limit # None
    /\ Len(pre.queued_operations) > limit[1]

\* After such a drain: apply was invoked on all q operations in order, committed
\* holds the last n of them, and the first q - n are in no list.
C27_AfterDrain ==
    C27_Overfull =>
        LET q == Len(pre.queued_operations)
            n == limit[1]
        IN /\ call.result = "Ok"
           /\ commands = AppliedInOrder(pre.queued_operations)
           /\ committed = LastN(pre.queued_operations, n)
           /\ Range(SubSeq(pre.queued_operations, 1, q - n)) \cap Held = {}
           /\ queued_operations = <<>>

\* Undo is invoked only on an operation that was committed, and the UndoRedo
\* comes to hold only the operation objects it is handed.
C27_Step ==
    /\ \A i \in 1..Len(commands') :
           commands'[i][1] = "undo" => commands'[i][2] \in Range(committed)
    /\ Held' \ Held \subseteq
           (IF call'.name \in {"UndoRedo::push_to_queue", "UndoRedo::push_and_apply"}
            THEN Range(call'.args) ELSE {})

\* C27: when apply_queue drains a queue of q operations into a history with
\* limit n < q, apply is invoked on all q operations in order but only the last n
\* remain in committed; the earlier q - n have been applied and are in no list,
\* and no later sequence of undo calls undoes them: undo reaches only committed
\* operations, and an operation in no list never comes back.
C27_AppliedThenEvicted == [](C27_AfterDrain) /\ [][C27_Step]_vars

\* Three queued operations drained into a history of limit 2 that already had a
\* committed operation.
C27_Witness ==
    /\ C27_Overfull
    /\ limit = Some(2)
    /\ Len(pre.queued_operations) = 3
    /\ pre.committed # <<>>
    /\ Len(commands) = 3
    /\ Len(committed) = 2

====
